---- MODULE Spec2Model ----
(***************************************************************************)
(* A model of the rich text widget of fyne (widget/richtext.go): the wrap  *)
(* engine (splitLines, binarySearch, findSpaceIndex, lineBounds), and the  *)
(* RichText container (updateRowBounds, Resize, Refresh, insertAt,         *)
(* deleteFromTo, ParseMarkdown) with its propertyLock.                     *)
(*                                                                         *)
(* A text is a sequence of runes.  Go's half-open, zero-based ranges       *)
(* text[low:high] are written Slice(text, low, high).                      *)
(***************************************************************************)
EXTENDS Integers, Sequences, FiniteSets, TLC

VARIABLES
  \* the wrap engine applied to one text: its inputs, its result
  wText, wWrap, wMaxWidth, wBounds, wPhase,
  \* binarySearch applied once: the highs its predicate accepts, its
  \* arguments, its result
  sFits, sLow, sMaxHigh, sResult, sPhase,
  \* one RichText: its fields, whether a call has panicked, what the last
  \* deleteFromTo returned, and the last call with the segments before it
  Segments, Wrapping, size, rowBounds, panicked, deleted, lastCall,
  \* the threads calling into the RichText: where each is in its call, the
  \* locals of that call, and the propertyLock (its writer, 0 when there is
  \* none, and its readers)
  pc, local, writer, readers,
  \* the renderer of one RichText: the widget's segments with their styles,
  \* its wrapping, width and row bounds, the renderer's objects, what
  \* MinSize declared for these rows and the height Layout consumed (-1: not
  \* called yet)
  rSegments, rWrapping, rSize, rRowBounds, rObjects, rMinSize, rLayout,
  \* layoutRow applied to one row: the texts of the row (before and after),
  \* the alignment, where the row starts, its width and the line height
  lrTexts, lrAlign, lrXPos, lrLineWidth, lrLineHeight, lrPhase,
  \* WatchTheme: where it is, whether RegNotifyChangeKeyValue was found,
  \* whether the registry key exists, whether the opened key was deleted,
  \* whether a change of the key is pending, the changes signalled and the
  \* calls of onChanged so far
  wtPc, procFound, keyExists, keyDeleted, changed, signals, invocations,
  \* the markdown bridge applied to one document tree: the tree, the
  \* segments rendered from it
  mdDoc, mdSegs, mdPhase,
  \* the unique-colour test of the theme suite: the theme under test (the
  \* colour of each name under each variant), whether an assertion failed
  ttTheme, ttFailed, ttPhase,
  \* a wrapping loop of lineBounds on one line, step by step: the line, the
  \* ranges the measurement accepts, the wrap mode, low and high, the rows
  \* appended, the iterations made, and whether the loop has ended
  lpText, lpFits, lpWrap, lpLow, lpHigh, lpRows, lpIterations, lpPc

wrapVars == <<wText, wWrap, wMaxWidth, wBounds, wPhase>>
searchVars == <<sFits, sLow, sMaxHigh, sResult, sPhase>>
textVars == <<Segments, Wrapping, size, rowBounds, panicked, deleted, lastCall>>
threadVars == <<pc, local, writer, readers>>
renderVars == <<rSegments, rWrapping, rSize, rRowBounds, rObjects, rMinSize, rLayout>>
rowVars == <<lrTexts, lrAlign, lrXPos, lrLineWidth, lrLineHeight, lrPhase>>
watchVars == <<wtPc, procFound, keyExists, keyDeleted, changed, signals, invocations>>
markdownVars == <<mdDoc, mdSegs, mdPhase>>
themeVars == <<ttTheme, ttFailed, ttPhase>>
loopVars == <<lpText, lpFits, lpWrap, lpLow, lpHigh, lpRows, lpIterations, lpPc>>
extVars == <<renderVars, rowVars, watchVars, markdownVars, themeVars, loopVars>>
baseVars == <<wrapVars, searchVars, textVars, threadVars>>
vars == <<baseVars, extVars>>
notRenderVars == <<baseVars, rowVars, watchVars, markdownVars, themeVars, loopVars>>
notRowVars == <<baseVars, renderVars, watchVars, markdownVars, themeVars, loopVars>>
notWatchVars == <<baseVars, renderVars, rowVars, markdownVars, themeVars, loopVars>>
notMarkdownVars == <<baseVars, renderVars, rowVars, watchVars, themeVars, loopVars>>
notThemeVars == <<baseVars, renderVars, rowVars, watchVars, markdownVars, loopVars>>
notLoopVars == <<baseVars, renderVars, rowVars, watchVars, markdownVars, themeVars>>

\* ------------------------------------------------------------------ bounds
\* Longest text the wrap engine is given.
MaxLen == 5
\* Widest wrap width the wrap engine is given.
MaxWidth == 3
\* Largest index binarySearch is given.
MaxHigh == 5
\* Most segments a RichText holds.
MaxSegs == 2
\* Longest text of a segment a RichText is constructed with.
MaxSegLen == 2
\* Most runes the segments of a RichText hold together.
MaxText == 2
\* Widest size a RichText is resized to.
MaxSize == 4
\* Threads calling into one RichText.
NumThreads == 2

\* ------------------------------------------------------------------- runes
\* "a" is an ordinary rune, "W" a wide one, " " and "\n" are white space.
Runes == {"a", "W", " ", "\n"}

IsSpace(r) == r \in {" ", "\n"}

\* The width the measurer gives one rune.
RuneWidth(r) == IF r = "W" THEN 2 ELSE 1

RECURSIVE measurer(_)
\* fyne.MeasureText(string(text), textSize, textStyle).Width
measurer(text) ==
  IF text = <<>> THEN 0 ELSE RuneWidth(Head(text)) + measurer(Tail(text))

\* Go's text[low:high]
Slice(text, low, high) == SubSeq(text, low + 1, high)

\* text[i], zero-based
At(text, i) == text[i + 1]

TextWrapOff == "Off"
TextTruncate == "Truncate"
TextWrapBreak == "Break"
TextWrapWord == "Word"
Wraps == {TextWrapOff, TextTruncate, TextWrapBreak, TextWrapWord}

rowBoundary(seg, begin, end, inline) ==
  [seg |-> seg, begin |-> begin, end |-> end, inline |-> inline]

\* ------------------------------------------------------------- splitLines
RECURSIVE splitLoop(_, _, _, _, _)
\* the for loop of splitLines, at index i with the current low and lines
splitLoop(seg, text, i, low, lines) ==
  IF i >= Len(text)
  THEN Append(lines, rowBoundary(seg, low, Len(text), TRUE))
  ELSE IF At(text, i) = "\n"
       THEN splitLoop(seg, text, i + 1, i + 1,
                      Append(lines, rowBoundary(seg, low, i, FALSE)))
       ELSE splitLoop(seg, text, i + 1, low, lines)

RECURSIVE splitLoopLowFirst(_, _, _, _, _)
\* splitLoop with low advanced before the line is appended
splitLoopLowFirst(seg, text, i, low, lines) ==
  IF i >= Len(text)
  THEN Append(lines, rowBoundary(seg, low, Len(text), TRUE))
  ELSE IF At(text, i) = "\n"
       THEN splitLoopLowFirst(seg, text, i + 1, i + 1,
                              Append(lines, rowBoundary(seg, i + 1, i, FALSE)))
       ELSE splitLoopLowFirst(seg, text, i + 1, low, lines)

splitLinesLowFirst(seg, text) == splitLoopLowFirst(seg, text, 0, 0, <<>>)

splitLines(seg, text) == splitLoop(seg, text, 0, 0, <<>>)

\* ----------------------------------------------------------- binarySearch
\* lessMaxWidth is a function on <<low, high>> pairs.
RECURSIVE searchHalve(_, _, _, _)
\* for delta > 0 { delta /= 2; if lessMaxWidth(low, high+delta) { high += delta } }
searchHalve(lessMaxWidth, low, high, delta) ==
  IF delta > 0
  THEN LET d == delta \div 2
       IN searchHalve(lessMaxWidth, low,
                      IF lessMaxWidth[<<low, high + d>>] THEN high + d ELSE high, d)
  ELSE high

RECURSIVE searchLinear(_, _, _, _)
\* for (high < maxHigh) && lessMaxWidth(low, high+1) { high++ }
searchLinear(lessMaxWidth, low, high, maxHigh) ==
  IF high < maxHigh /\ lessMaxWidth[<<low, high + 1>>]
  THEN searchLinear(lessMaxWidth, low, high + 1, maxHigh)
  ELSE high

\* binarySearch without its linear correction pass
binarySearchNoLinear(lessMaxWidth, low, maxHigh) ==
  IF low >= maxHigh THEN low
  ELSE IF lessMaxWidth[<<low, maxHigh>>] THEN maxHigh
  ELSE searchHalve(lessMaxWidth, low, low, maxHigh - low)

\* binarySearch giving back maxHigh whatever the predicate says
binarySearchMaxHigh(lessMaxWidth, low, maxHigh) ==
  IF low >= maxHigh THEN low ELSE maxHigh

binarySearch(lessMaxWidth, low, maxHigh) ==
  IF low >= maxHigh THEN low
  ELSE IF lessMaxWidth[<<low, maxHigh>>] THEN maxHigh
  ELSE searchLinear(lessMaxWidth, low,
                    searchHalve(lessMaxWidth, low, low, maxHigh - low), maxHigh)

\* --------------------------------------------------------- findSpaceIndex
RECURSIVE spaceLoop(_, _)
\* for ; curIndex >= 0; curIndex-- { if unicode.IsSpace(text[curIndex]) { break } }
spaceLoop(text, curIndex) ==
  IF curIndex >= 0 /\ ~IsSpace(At(text, curIndex))
  THEN spaceLoop(text, curIndex - 1)
  ELSE curIndex

findSpaceIndex(text, fallback) ==
  LET curIndex == spaceLoop(text, fallback)
  IN IF curIndex < 0 THEN fallback ELSE curIndex

\* -------------------------------------------------------------- lineBounds
\* checker := func(low, high) bool { return measurer(text[low:high]) <= maxWidth }
checker(text, maxWidth) ==
  [p \in (0..Len(text)) \X (0..Len(text)) |->
     measurer(Slice(text, p[1], p[2])) <= maxWidth]

RECURSIVE breakLoop(_, _, _, _, _, _, _)
\* case fyne.TextWrapBreak: for low < high { ... }
breakLoop(seg, text, maxWidth, l, low, high, bounds) ==
  IF low < high
  THEN IF measurer(Slice(text, low, high)) <= maxWidth
       THEN breakLoop(seg, text, maxWidth, l, high, l.end,
                      Append(bounds, rowBoundary(seg, low, high, FALSE)))
       ELSE breakLoop(seg, text, maxWidth, l, low,
                      binarySearch(checker(text, maxWidth), low, high), bounds)
  ELSE bounds

RECURSIVE wordLoopRuneCount(_, _, _, _, _, _, _)
\* wordLoop deciding the fit by the number of runes, not their measure
wordLoopRuneCount(seg, text, maxWidth, l, low, high, bounds) ==
  IF low < high
  THEN LET sub == Slice(text, low, high)
       IN IF Len(sub) <= maxWidth
          THEN LET low2 == IF high < l.end /\ IsSpace(At(text, high))
                           THEN high + 1 ELSE high
               IN wordLoopRuneCount(seg, text, maxWidth, l, low2, l.end,
                           Append(bounds, rowBoundary(seg, low, high, FALSE)))
          ELSE LET last == low + Len(sub) - 1
                   found == findSpaceIndex(sub,
                              binarySearch(checker(text, maxWidth), low, last) - low)
               IN wordLoopRuneCount(seg, text, maxWidth, l, low, low + found, bounds)
  ELSE bounds

RECURSIVE wordLoop(_, _, _, _, _, _, _)
\* case fyne.TextWrapWord: for low < high { ... }
wordLoop(seg, text, maxWidth, l, low, high, bounds) ==
  IF low < high
  THEN LET sub == Slice(text, low, high)
       IN IF measurer(sub) <= maxWidth
          THEN LET low2 == IF high < l.end /\ IsSpace(At(text, high))
                           THEN high + 1 ELSE high
               IN wordLoop(seg, text, maxWidth, l, low2, l.end,
                           Append(bounds, rowBoundary(seg, low, high, FALSE)))
          ELSE LET last == low + Len(sub) - 1
                   found == findSpaceIndex(sub,
                              binarySearch(checker(text, maxWidth), low, last) - low)
               IN wordLoop(seg, text, maxWidth, l, low, low + found, bounds)
  ELSE bounds

\* the body of "for _, l := range lines" for one line l
lineRows(seg, text, wrap, maxWidth, l, bounds) ==
  IF l.begin = l.end THEN Append(bounds, l)
  ELSE CASE wrap = TextTruncate ->
              Append(bounds,
                     rowBoundary(seg, l.begin,
                                 binarySearch(checker(text, maxWidth), l.begin, l.end),
                                 FALSE))
         [] wrap = TextWrapBreak ->
              breakLoop(seg, text, maxWidth, l, l.begin, l.end, bounds)
         [] wrap = TextWrapWord ->
              wordLoop(seg, text, maxWidth, l, l.begin, l.end, bounds)
         [] OTHER -> bounds

RECURSIVE linesLoop(_, _, _, _, _, _)
\* for _, l := range lines
linesLoop(seg, text, wrap, maxWidth, lines, bounds) ==
  IF lines = <<>> THEN bounds
  ELSE linesLoop(seg, text, wrap, maxWidth, Tail(lines),
                 lineRows(seg, text, wrap, maxWidth, Head(lines), bounds))

lineBounds(seg, text, wrap, maxWidth) ==
  LET lines == splitLines(seg, text)
  IN IF maxWidth <= 0 \/ wrap = TextWrapOff THEN lines
     ELSE linesLoop(seg, text, wrap, maxWidth, lines, <<>>)

\* ------------------------------------------------------------- RichText
\* theme.Padding(), the theme's choice
Padding == 1

\* the zero rune a rune slice holds between its length and its capacity
NUL == "NUL"

TextSegment(text, inline) == [kind |-> "TextSegment", Text |-> text, Inline |-> inline]

\* a segment that is no *TextSegment (a list, an image, a separator, ...)
OtherSegment == [kind |-> "Other", Text |-> <<>>, Inline |-> FALSE]

\* _, ok := seg.(*TextSegment)
isTextSegment(seg) == seg.kind = "TextSegment"

RECURSIVE len(_)
\* RichText.len, over the text segments
len(segs) ==
  IF segs = <<>> THEN 0 ELSE Len(Head(segs).Text) + len(Tail(segs))

RECURSIVE boundsLoop(_, _, _, _, _)
\* for _, seg := range t.Segments, at segment i with the bounds so far
boundsLoop(segs, wrap, width, i, bounds) ==
  IF i > Len(segs) THEN bounds
  ELSE IF ~isTextSegment(segs[i]) THEN boundsLoop(segs, wrap, width, i + 1, bounds)
  ELSE LET maxWidth == width - 2 * Padding
           appended == bounds \o lineBounds(i, segs[i].Text, wrap, maxWidth)
       IN IF Len(appended) = 0
          THEN boundsLoop(segs, wrap, width, i + 1, appended)
          ELSE boundsLoop(segs, wrap, width, i + 1,
                 [appended EXCEPT ![Len(appended)].inline = segs[i].Inline])

\* the bounds updateRowBounds computes and stores
updateRowBounds(segs, wrap, width) == boundsLoop(segs, wrap, width, 1, <<>>)

RECURSIVE segmentLoop(_, _, _, _, _)
\* the loop of insertAt and deleteFromTo that looks for the text segment of
\* pos: index is the segment found (0: none, into == nil), start the runes
\* before it
segmentLoop(segs, pos, i, start, index) ==
  IF i > Len(segs) THEN [index |-> index, start |-> start]
  ELSE IF ~isTextSegment(segs[i]) THEN segmentLoop(segs, pos, i + 1, start, index)
  ELSE LET end == start + Len(segs[i].Text)
       IN IF end > pos THEN [index |-> i, start |-> start]
          ELSE segmentLoop(segs, pos, i + 1, end, i)

\* r followed by zero runes up to n runes: the backing array of r read past
\* its length
Padded(r, n) == r \o [k \in 1..(n - Len(r)) |-> NUL]

\* append(r[:pos], append([]rune(runes), r[pos:]...)...)
spliceIn(r, pos, runes) == Slice(r, 0, pos) \o runes \o Slice(r, pos, Len(r))

\* append(r[:lowBound], r[highBound:]...), highBound already clamped
spliceOut(r, lowBound, highBound) ==
  Slice(Padded(r, lowBound), 0, lowBound) \o Slice(r, highBound, Len(r))

Min(a, b) == IF a < b THEN a ELSE b

NoCall == [op |-> "none"]

\* ------------------------------------------- the wrap engine on one text
RECURSIVE TextsOfLen(_)
TextsOfLen(n) ==
  IF n = 0 THEN {<<>>}
  ELSE {Append(t, r) : t \in TextsOfLen(n - 1), r \in Runes}

Texts == UNION {TextsOfLen(n) : n \in 0..MaxLen}

Threads == 1..NumThreads

\* the locals of a thread that is in no call
NoLocal ==
  [newSize |-> 0, segs |-> <<>>, pos |-> 0, runes |-> <<>>,
   bounds |-> <<>>, calls |-> 0, count |-> 0, i |-> 0]

ThreadsIdle ==
  /\ pc = [t \in Threads |-> "idle"]
  /\ local = [t \in Threads |-> NoLocal]
  /\ writer = 0
  /\ readers = {}

TextIdle ==
  /\ Segments = <<>> /\ Wrapping = TextWrapOff /\ size = 0 /\ rowBounds = <<>>
  /\ panicked = FALSE /\ deleted = <<>> /\ lastCall = NoCall

WrapIdle ==
  /\ wText = <<>> /\ wWrap = TextWrapOff /\ wMaxWidth = 0
  /\ wBounds = <<>> /\ wPhase = "idle"

SearchIdle ==
  /\ sFits = {} /\ sLow = 0 /\ sMaxHigh = 0 /\ sResult = 0 /\ sPhase = "idle"

RenderIdle ==
  /\ rSegments = <<>> /\ rWrapping = TextWrapOff /\ rSize = 0
  /\ rRowBounds = <<>> /\ rObjects = <<>>
  /\ rMinSize = [Width |-> -1, Height |-> -1] /\ rLayout = -1

RowIdle ==
  /\ lrTexts = <<>> /\ lrAlign = "Leading" /\ lrXPos = 0
  /\ lrLineWidth = 0 /\ lrLineHeight = 0 /\ lrPhase = "idle"

WatchIdle ==
  /\ wtPc = "idle" /\ procFound = FALSE /\ keyExists = FALSE
  /\ keyDeleted = FALSE /\ changed = FALSE /\ signals = 0 /\ invocations = 0

MarkdownIdle ==
  /\ mdDoc = <<>> /\ mdSegs = <<>> /\ mdPhase = "idle"

ThemeIdle ==
  /\ ttTheme = <<>> /\ ttFailed = FALSE /\ ttPhase = "idle"

LoopIdle ==
  /\ lpText = <<>> /\ lpFits = <<>> /\ lpWrap = TextWrapOff /\ lpLow = 0
  /\ lpHigh = 0 /\ lpRows = <<>> /\ lpIterations = 0 /\ lpPc = "idle"

ExtIdle ==
  /\ RenderIdle
  /\ RowIdle
  /\ WatchIdle
  /\ MarkdownIdle
  /\ ThemeIdle
  /\ LoopIdle

BaseIdle == WrapIdle /\ SearchIdle /\ TextIdle /\ ThreadsIdle

NotRenderIdle == BaseIdle /\ RowIdle /\ WatchIdle /\ MarkdownIdle /\ ThemeIdle /\ LoopIdle
NotRowIdle == BaseIdle /\ RenderIdle /\ WatchIdle /\ MarkdownIdle /\ ThemeIdle /\ LoopIdle
NotWatchIdle == BaseIdle /\ RenderIdle /\ RowIdle /\ MarkdownIdle /\ ThemeIdle /\ LoopIdle
NotMarkdownIdle == BaseIdle /\ RenderIdle /\ RowIdle /\ WatchIdle /\ ThemeIdle /\ LoopIdle
NotThemeIdle == BaseIdle /\ RenderIdle /\ RowIdle /\ WatchIdle /\ MarkdownIdle /\ LoopIdle
NotLoopIdle == BaseIdle /\ RenderIdle /\ RowIdle /\ WatchIdle /\ MarkdownIdle /\ ThemeIdle

InitWrap ==
  /\ wText \in Texts
  /\ wWrap \in Wraps
  /\ wMaxWidth \in -1..MaxWidth
  /\ wBounds = <<>>
  /\ wPhase = "input"
  /\ SearchIdle
  /\ TextIdle
  /\ ThreadsIdle
  /\ ExtIdle

\* bounds := lineBounds(seg, wrap, maxWidth, measurer)
ApplyLineBounds ==
  /\ wPhase = "input"
  /\ wBounds' = lineBounds(0, wText, wWrap, wMaxWidth)
  /\ wPhase' = "done"
  /\ UNCHANGED <<wText, wWrap, wMaxWidth, searchVars, textVars, threadVars, extVars>>

NextWrap == ApplyLineBounds

SpecWrap == InitWrap /\ [][NextWrap]_vars

\* --------------------------------------------- binarySearch applied once
InitSearch ==
  /\ sFits \in SUBSET (0..MaxHigh)
  /\ sLow \in 0..MaxHigh
  /\ sMaxHigh \in 0..MaxHigh
  /\ sResult = 0
  /\ sPhase = "input"
  /\ WrapIdle
  /\ TextIdle
  /\ ThreadsIdle
  /\ ExtIdle

\* the predicate handed to binarySearch: lessMaxWidth(low, high) iff high \in fits
lessMaxWidthOf(fits) == [p \in (0..MaxHigh) \X (0..MaxHigh) |-> p[2] \in fits]

ApplyBinarySearch ==
  /\ sPhase = "input"
  /\ sResult' = binarySearch(lessMaxWidthOf(sFits), sLow, sMaxHigh)
  /\ sPhase' = "done"
  /\ UNCHANGED <<sFits, sLow, sMaxHigh, wrapVars, textVars, threadVars, extVars>>

NextSearch == ApplyBinarySearch

SpecSearch == InitSearch /\ [][NextSearch]_vars

\* ------------------------------------------------- one RichText, one caller
\* the runes of the texts a RichText is given
TextRunes == {"a", " ", "\n"}

RECURSIVE SegTextsOfLen(_)
SegTextsOfLen(n) ==
  IF n = 0 THEN {<<>>}
  ELSE {Append(t, r) : t \in SegTextsOfLen(n - 1), r \in TextRunes}

SegTexts == UNION {SegTextsOfLen(n) : n \in 0..MaxSegLen}

SegmentChoices ==
  {OtherSegment} \cup {TextSegment(t, i) : t \in SegTexts, i \in BOOLEAN}

SegmentLists ==
  {segs \in UNION {[1..n -> SegmentChoices] : n \in 0..MaxSegs} : len(segs) <= MaxText}

\* what parseMarkdown makes of some documents: the empty document, a
\* paragraph, a heading, a paragraph of two lines, a list
parseMarkdown ==
  { <<>>,
    <<TextSegment(<<"a">>, TRUE), TextSegment(<<>>, FALSE)>>,
    <<TextSegment(<<"a", " ">>, FALSE)>>,
    <<TextSegment(<<"a", "\n">>, TRUE), TextSegment(<<>>, FALSE)>>,
    <<OtherSegment>> }

\* the sizes a RichText is resized to: none, and those that leave a wrap width
Sizes == {0} \cup ((2 * Padding + 1)..MaxSize)

\* the strings insertAt is given
InsertStrings == {<<"a">>, <<" ">>, <<"a", "\n">>}

\* NewRichText(segments...), or a RichText literal given its wrapping and
\* then its renderer: updateRowBounds has run
Init ==
  /\ Segments \in SegmentLists
  /\ Wrapping \in Wraps
  /\ size = 0
  /\ rowBounds = updateRowBounds(Segments, Wrapping, 0)
  /\ panicked = FALSE
  /\ deleted = <<>>
  /\ lastCall = NoCall
  /\ WrapIdle
  /\ SearchIdle
  /\ ThreadsIdle
  /\ ExtIdle

\* t.Resize(size)
Resize(newSize) ==
  /\ ~panicked
  /\ UNCHANGED <<wrapVars, searchVars, threadVars, extVars>>
  /\ IF size = newSize
     THEN UNCHANGED <<size, rowBounds>>
     ELSE /\ size' = newSize
          /\ rowBounds' = updateRowBounds(Segments, Wrapping, newSize)
  /\ lastCall' = NoCall
  /\ deleted' = <<>>
  /\ UNCHANGED <<Segments, Wrapping, panicked>>

\* t.Refresh()
Refresh ==
  /\ ~panicked
  /\ UNCHANGED <<wrapVars, searchVars, threadVars, extVars>>
  /\ rowBounds' = updateRowBounds(Segments, Wrapping, size)
  /\ lastCall' = NoCall
  /\ deleted' = <<>>
  /\ UNCHANGED <<Segments, Wrapping, size, panicked>>

\* t.ParseMarkdown(content)
ParseMarkdown(segs) ==
  /\ ~panicked
  /\ UNCHANGED <<wrapVars, searchVars, threadVars, extVars>>
  /\ Segments' = segs
  /\ rowBounds' = updateRowBounds(segs, Wrapping, size)
  /\ lastCall' = NoCall
  /\ deleted' = <<>>
  /\ UNCHANGED <<Wrapping, size, panicked>>

\* t.AppendMarkdown(content)
AppendMarkdown(segs) ==
  /\ ~panicked
  /\ UNCHANGED <<wrapVars, searchVars, threadVars, extVars>>
  /\ Len(Segments) + Len(segs) <= MaxSegs
  /\ len(Segments) + len(segs) <= MaxText
  /\ Segments' = Segments \o segs
  /\ rowBounds' = updateRowBounds(Segments \o segs, Wrapping, size)
  /\ lastCall' = NoCall
  /\ deleted' = <<>>
  /\ UNCHANGED <<Wrapping, size, panicked>>

\* t.insertAt(pos, runes)
insertAt(pos, runes) ==
  /\ ~panicked
  /\ UNCHANGED <<wrapVars, searchVars, threadVars, extVars>>
  /\ len(Segments) + Len(runes) <= MaxText
  /\ lastCall' = [op |-> "insertAt", pos |-> pos, runes |-> runes, before |-> Segments]
  /\ LET found == segmentLoop(Segments, pos, 1, 0, 0)
         index == found.index
     IN IF index = 0
        THEN UNCHANGED <<Segments, rowBounds, panicked>>
        ELSE LET r == Segments[index].Text
             IN IF pos > Len(r)
                THEN \* r[pos:] is out of range
                     /\ panicked' = TRUE
                     /\ UNCHANGED <<Segments, rowBounds>>
                ELSE LET segs == [Segments EXCEPT ![index].Text = spliceIn(r, pos, runes)]
                     IN /\ Segments' = segs
                        /\ rowBounds' = updateRowBounds(segs, Wrapping, size)
                        /\ UNCHANGED panicked
  /\ deleted' = <<>>
  /\ UNCHANGED <<Wrapping, size>>

\* the insert a deleteFromTo(lowBound, highBound) takes back, if the last call
\* was that insert
Undone(lowBound, highBound) ==
  IF /\ lastCall.op = "insertAt"
     /\ lastCall.pos = lowBound
     /\ highBound = lowBound + Len(lastCall.runes)
  THEN [runes |-> lastCall.runes, before |-> lastCall.before]
  ELSE [runes |-> <<>>, before |-> <<>>]

\* t.deleteFromTo(lowBound, highBound)
deleteFromTo(lowBound, highBound) ==
  /\ ~panicked
  /\ UNCHANGED <<wrapVars, searchVars, threadVars, extVars>>
  /\ lastCall' = [op |-> "deleteFromTo", lowBound |-> lowBound, highBound |-> highBound,
              before |-> Segments,
              undoes |-> (lastCall.op = "insertAt" /\ lastCall.pos = lowBound
                            /\ highBound = lowBound + Len(lastCall.runes)),
              undone |-> Undone(lowBound, highBound)]
  /\ LET found == segmentLoop(Segments, lowBound, 1, 0, 0)
         index == found.index
     IN IF index = 0
        THEN /\ deleted' = <<>>
             /\ UNCHANGED <<Segments, rowBounds, panicked>>
        ELSE LET r == Segments[index].Text
             IN \* the capacity of []rune(from.Text): its length, or room to spare
                \E capacity \in {Len(r), Len(r) + highBound} :
                  IF highBound > capacity
                  THEN \* r[lowBound:highBound] is out of range
                       /\ panicked' = TRUE
                       /\ deleted' = <<>>
                       /\ UNCHANGED <<Segments, rowBounds>>
                  ELSE LET clamped == Min(highBound, Len(r))
                           segs == [Segments EXCEPT
                                      ![index].Text = spliceOut(r, lowBound, clamped)]
                       IN /\ deleted' = Slice(Padded(r, highBound), lowBound, highBound)
                          /\ Segments' = segs
                          /\ rowBounds' = updateRowBounds(segs, Wrapping, size)
                          /\ UNCHANGED panicked
  /\ UNCHANGED <<Wrapping, size>>

Next ==
  \/ \E newSize \in Sizes : Resize(newSize)
  \/ Refresh
  \/ \E segs \in parseMarkdown : ParseMarkdown(segs)
  \/ \E segs \in parseMarkdown : AppendMarkdown(segs)
  \/ \E pos \in 0..len(Segments), runes \in InsertStrings : insertAt(pos, runes)
  \/ \E lowBound \in 0..Min(len(Segments), MaxText) :
       \E highBound \in lowBound..Min(len(Segments) + 1, MaxText + 1) :
         deleteFromTo(lowBound, highBound)

Spec == Init /\ [][Next]_vars

\* ------------------------------------------ one RichText, several threads
\* Each thread makes one call after another.  A call is a sequence of steps;
\* a step is one access to the fields, or taking the propertyLock.  A region
\* under the lock is two steps: taking the lock, then the access together
\* with the unlock.

\* propertyLock.RLock() by t is possible
CanRLock == writer = 0

\* propertyLock.Lock() by t is possible
CanLock == writer = 0 /\ readers = {}

Goto(t, label) == pc' = [pc EXCEPT ![t] = label]

Return(t) ==
  /\ pc' = [pc EXCEPT ![t] = "idle"]
  /\ local' = [local EXCEPT ![t] = NoLocal]

fieldVars == <<Segments, Wrapping, size, rowBounds>>
callVars == <<deleted, lastCall, wrapVars, searchVars, extVars>>

\* the documents the threads parse
ThreadDocs ==
  { <<TextSegment(<<"a">>, TRUE), TextSegment(<<>>, FALSE)>>,
    <<TextSegment(<<"a", " ">>, FALSE)>> }

\* NewRichText(segments...), no thread in a call yet
InitThreads ==
  /\ Segments \in ThreadDocs
  /\ Wrapping \in {TextWrapOff, TextWrapWord}
  /\ size = 0
  /\ rowBounds = updateRowBounds(Segments, Wrapping, 0)
  /\ panicked = FALSE
  /\ deleted = <<>>
  /\ lastCall = NoCall
  /\ WrapIdle
  /\ SearchIdle
  /\ ThreadsIdle
  /\ ExtIdle

\* ---- t.Resize(size)
CallResize(t, newSize) ==
  /\ ~panicked /\ pc[t] = "idle"
  /\ Goto(t, "Resize_RLock")
  /\ local' = [local EXCEPT ![t].newSize = newSize]
  /\ UNCHANGED <<fieldVars, panicked, writer, readers, callVars>>

\* t.propertyLock.RLock()
ResizeRLock(t) ==
  /\ ~panicked /\ pc[t] = "Resize_RLock"
  /\ CanRLock
  /\ readers' = readers \cup {t}
  /\ Goto(t, "Resize_baseSize")
  /\ UNCHANGED <<fieldVars, panicked, local, writer, callVars>>

\* baseSize := t.size; RUnlock; if baseSize == size { return }
ResizeBaseSize(t) ==
  /\ ~panicked /\ pc[t] = "Resize_baseSize"
  /\ readers' = readers \ {t}
  /\ IF size = local[t].newSize
     THEN Return(t)
     ELSE Goto(t, "Resize_Lock") /\ UNCHANGED local
  /\ UNCHANGED <<fieldVars, panicked, writer, callVars>>

\* t.propertyLock.Lock()
ResizeLock(t) ==
  /\ ~panicked /\ pc[t] = "Resize_Lock"
  /\ CanLock
  /\ writer' = t
  /\ Goto(t, "Resize_size")
  /\ UNCHANGED <<fieldVars, panicked, local, readers, callVars>>

\* t.size = size; Unlock; then t.updateRowBounds() and t.Refresh()
ResizeSize(t) ==
  /\ ~panicked /\ pc[t] = "Resize_size"
  /\ size' = local[t].newSize
  /\ writer' = 0
  /\ Goto(t, "updateRowBounds_RLock")
  /\ local' = [local EXCEPT ![t].calls = 2]
  /\ UNCHANGED <<Segments, Wrapping, rowBounds, panicked, readers, callVars>>

\* ---- t.Refresh()
CallRefresh(t) ==
  /\ ~panicked /\ pc[t] = "idle"
  /\ Goto(t, "updateRowBounds_RLock")
  /\ local' = [local EXCEPT ![t].calls = 1]
  /\ UNCHANGED <<fieldVars, panicked, writer, readers, callVars>>

\* ---- t.updateRowBounds()
\* t.propertyLock.RLock()
UpdateRowBoundsRLock(t) ==
  /\ ~panicked /\ pc[t] = "updateRowBounds_RLock"
  /\ CanRLock
  /\ readers' = readers \cup {t}
  /\ Goto(t, "updateRowBounds_bounds")
  /\ UNCHANGED <<fieldVars, panicked, local, writer, callVars>>

\* the loop over t.Segments that computes bounds; RUnlock
UpdateRowBoundsBounds(t) ==
  /\ ~panicked /\ pc[t] = "updateRowBounds_bounds"
  /\ local' = [local EXCEPT ![t].bounds = updateRowBounds(Segments, Wrapping, size)]
  /\ readers' = readers \ {t}
  /\ Goto(t, "updateRowBounds_Lock")
  /\ UNCHANGED <<fieldVars, panicked, writer, callVars>>

\* t.propertyLock.Lock()
UpdateRowBoundsLock(t) ==
  /\ ~panicked /\ pc[t] = "updateRowBounds_Lock"
  /\ CanLock
  /\ writer' = t
  /\ Goto(t, "updateRowBounds_rowBounds")
  /\ UNCHANGED <<fieldVars, panicked, local, readers, callVars>>

\* t.rowBounds = bounds; Unlock; back in the caller, which calls
\* updateRowBounds again (Resize, through Refresh) or returns
UpdateRowBoundsRowBounds(t) ==
  /\ ~panicked /\ pc[t] = "updateRowBounds_rowBounds"
  /\ rowBounds' = local[t].bounds
  /\ writer' = 0
  /\ IF local[t].calls > 1
     THEN /\ Goto(t, "updateRowBounds_RLock")
          /\ local' = [local EXCEPT ![t].calls = local[t].calls - 1,
                                    ![t].bounds = <<>>]
     ELSE Return(t)
  /\ UNCHANGED <<Segments, Wrapping, size, panicked, readers, callVars>>

\* ---- t.ParseMarkdown(content)
CallParseMarkdown(t, segs) ==
  /\ ~panicked /\ pc[t] = "idle"
  /\ Goto(t, "ParseMarkdown_Segments")
  /\ local' = [local EXCEPT ![t].segs = segs]
  /\ UNCHANGED <<fieldVars, panicked, writer, readers, callVars>>

\* t.Segments = parseMarkdown(content); then t.Refresh()
ParseMarkdownSegments(t) ==
  /\ ~panicked /\ pc[t] = "ParseMarkdown_Segments"
  /\ Segments' = local[t].segs
  /\ Goto(t, "updateRowBounds_RLock")
  /\ local' = [local EXCEPT ![t].segs = <<>>, ![t].calls = 1]
  /\ UNCHANGED <<Wrapping, size, rowBounds, panicked, writer, readers, callVars>>

\* ---- t.insertAt(pos, runes)
CallInsertAt(t, pos, runes) ==
  /\ ~panicked /\ pc[t] = "idle"
  /\ len(Segments) + Len(runes) <= MaxText
  /\ Goto(t, "insertAt_Segments")
  /\ local' = [local EXCEPT ![t].pos = pos, ![t].runes = runes]
  /\ UNCHANGED <<fieldVars, panicked, writer, readers, callVars>>

\* the loop over t.Segments, into.Text = string(r2), t.Segments[index] = into;
\* then t.Refresh()
InsertAtSegments(t) ==
  /\ ~panicked /\ pc[t] = "insertAt_Segments"
  /\ LET found == segmentLoop(Segments, local[t].pos, 1, 0, 0)
         index == found.index
     IN IF index = 0
        THEN Return(t) /\ UNCHANGED <<Segments, panicked>>
        ELSE LET r == Segments[index].Text
             IN IF local[t].pos > Len(r)
                THEN /\ panicked' = TRUE
                     /\ UNCHANGED <<Segments, pc, local>>
                ELSE /\ Segments' = [Segments EXCEPT
                          ![index].Text = spliceIn(r, local[t].pos, local[t].runes)]
                     /\ Goto(t, "updateRowBounds_RLock")
                     /\ local' = [local EXCEPT ![t].pos = 0, ![t].runes = <<>>,
                                               ![t].calls = 1]
                     /\ UNCHANGED panicked
  /\ UNCHANGED <<Wrapping, size, rowBounds, writer, readers, callVars>>

\* ---- t.MinSize()
CallMinSize(t) ==
  /\ ~panicked /\ pc[t] = "idle"
  /\ Goto(t, "MinSize_charMinSize")
  /\ UNCHANGED <<fieldVars, panicked, local, writer, readers, callVars>>

\* t.charMinSize(false), t.charMinSize(true): t.Segments[0].(*TextSegment)
MinSizeCharMinSize(t) ==
  /\ ~panicked /\ pc[t] = "MinSize_charMinSize"
  /\ IF Segments = <<>> \/ ~isTextSegment(Segments[1])
     THEN panicked' = TRUE /\ UNCHANGED pc
     ELSE Goto(t, "MinSize_RLock") /\ UNCHANGED panicked
  /\ UNCHANGED <<fieldVars, local, writer, readers, callVars>>

\* t.propertyLock.RLock()
MinSizeRLock(t) ==
  /\ ~panicked /\ pc[t] = "MinSize_RLock"
  /\ CanRLock
  /\ readers' = readers \cup {t}
  /\ Goto(t, "MinSize_rows")
  /\ UNCHANGED <<fieldVars, panicked, local, writer, callVars>>

\* count := t.rows(); wrap := t.Wrapping; RUnlock; for ; i < count; i++
MinSizeRows(t) ==
  /\ ~panicked /\ pc[t] = "MinSize_rows"
  /\ readers' = readers \ {t}
  /\ IF Len(rowBounds) = 0
     THEN Return(t)
     ELSE /\ Goto(t, "MinSize_row")
          /\ local' = [local EXCEPT ![t].count = Len(rowBounds), ![t].i = 0]
  /\ UNCHANGED <<fieldVars, panicked, writer, callVars>>

\* t.row(i): if row < 0 || row >= t.rows() { return nil }
MinSizeRow(t) ==
  /\ ~panicked /\ pc[t] = "MinSize_row"
  /\ IF local[t].i >= Len(rowBounds)
     THEN Goto(t, "MinSize_rowBoundary_RLock")
     ELSE Goto(t, "MinSize_row_bounds")
  /\ UNCHANGED <<fieldVars, panicked, local, writer, readers, callVars>>

\* t.row(i): bounds := t.rowBounds[row], and the runes of its segment
MinSizeRowBounds(t) ==
  /\ ~panicked /\ pc[t] = "MinSize_row_bounds"
  /\ IF local[t].i >= Len(rowBounds)
     THEN \* index out of range
          panicked' = TRUE /\ UNCHANGED pc
     ELSE Goto(t, "MinSize_rowBoundary_RLock") /\ UNCHANGED panicked
  /\ UNCHANGED <<fieldVars, local, writer, readers, callVars>>

\* t.rowBoundary(i): t.propertyLock.RLock()
MinSizeRowBoundaryRLock(t) ==
  /\ ~panicked /\ pc[t] = "MinSize_rowBoundary_RLock"
  /\ CanRLock
  /\ readers' = readers \cup {t}
  /\ Goto(t, "MinSize_rowBoundary")
  /\ UNCHANGED <<fieldVars, panicked, local, writer, callVars>>

\* bound := t.rowBoundary(i), nil when i >= t.rows(); RUnlock;
\* bound.seg.size(); i++
MinSizeRowBoundary(t) ==
  /\ ~panicked /\ pc[t] = "MinSize_rowBoundary"
  /\ readers' = readers \ {t}
  /\ IF local[t].i >= Len(rowBounds)
     THEN \* bound is nil
          panicked' = TRUE /\ UNCHANGED <<pc, local>>
     ELSE /\ UNCHANGED panicked
          /\ IF local[t].i + 1 < local[t].count
             THEN /\ Goto(t, "MinSize_row")
                  /\ local' = [local EXCEPT ![t].i = local[t].i + 1]
             ELSE Return(t)
  /\ UNCHANGED <<fieldVars, writer, callVars>>

\* the thread the driver renders on
RenderThread == 1

\* ---- r.Refresh(), the renderer's, called by the driver
CallRendererRefresh(t) ==
  /\ ~panicked /\ pc[t] = "idle"
  /\ t = RenderThread
  /\ Goto(t, "Refresh_rows")
  /\ UNCHANGED <<fieldVars, panicked, local, writer, readers, callVars>>

\* for ; index < r.obj.rows(); index++
RefreshRows(t) ==
  /\ ~panicked /\ pc[t] = "Refresh_rows"
  /\ IF local[t].i < Len(rowBounds)
     THEN Goto(t, "Refresh_rowBoundary_RLock")
     ELSE Goto(t, "Refresh_Lock")
  /\ UNCHANGED <<fieldVars, panicked, local, writer, readers, callVars>>

\* r.obj.rowBoundary(index): t.propertyLock.RLock()
RefreshRowBoundaryRLock(t) ==
  /\ ~panicked /\ pc[t] = "Refresh_rowBoundary_RLock"
  /\ CanRLock
  /\ readers' = readers \cup {t}
  /\ Goto(t, "Refresh_rowBoundary")
  /\ UNCHANGED <<fieldVars, panicked, local, writer, callVars>>

\* bound := r.obj.rowBoundary(index), nil when index >= t.rows(); RUnlock;
\* bound.seg.Visual(); objs = append(objs, obj)
RefreshRowBoundary(t) ==
  /\ ~panicked /\ pc[t] = "Refresh_rowBoundary"
  /\ readers' = readers \ {t}
  /\ IF local[t].i >= Len(rowBounds)
     THEN \* bound is nil
          panicked' = TRUE /\ UNCHANGED <<pc, local>>
     ELSE /\ UNCHANGED panicked
          /\ Goto(t, "Refresh_rows")
          /\ local' = [local EXCEPT ![t].i = local[t].i + 1]
  /\ UNCHANGED <<fieldVars, writer, callVars>>

\* r.obj.propertyLock.Lock()
RefreshLock(t) ==
  /\ ~panicked /\ pc[t] = "Refresh_Lock"
  /\ CanLock
  /\ writer' = t
  /\ Goto(t, "Refresh_SetObjects")
  /\ UNCHANGED <<fieldVars, panicked, local, readers, callVars>>

\* r.SetObjects(objs), the renderer's objects not being followed here;
\* Unlock; then r.Layout(r.obj.Size())
RefreshSetObjects(t) ==
  /\ ~panicked /\ pc[t] = "Refresh_SetObjects"
  /\ writer' = 0
  /\ Goto(t, "Layout_RLock")
  /\ local' = [local EXCEPT ![t].i = 0]
  /\ UNCHANGED <<fieldVars, panicked, readers, callVars>>

\* r.Layout(size): r.obj.propertyLock.RLock()
LayoutRLock(t) ==
  /\ ~panicked /\ pc[t] = "Layout_RLock"
  /\ CanRLock
  /\ readers' = readers \cup {t}
  /\ Goto(t, "Layout_rowBounds")
  /\ UNCHANGED <<fieldVars, panicked, local, writer, callVars>>

\* bounds := r.obj.rowBounds, the rows laid out, and the deferred RUnlock
LayoutRowBounds(t) ==
  /\ ~panicked /\ pc[t] = "Layout_rowBounds"
  /\ readers' = readers \ {t}
  /\ Return(t)
  /\ UNCHANGED <<fieldVars, panicked, writer, callVars>>

NextThreads ==
  \E t \in Threads :
    \/ \E newSize \in Sizes : CallResize(t, newSize)
    \/ ResizeRLock(t)
    \/ ResizeBaseSize(t)
    \/ ResizeLock(t)
    \/ ResizeSize(t)
    \/ CallRefresh(t)
    \/ UpdateRowBoundsRLock(t)
    \/ UpdateRowBoundsBounds(t)
    \/ UpdateRowBoundsLock(t)
    \/ UpdateRowBoundsRowBounds(t)
    \/ \E segs \in ThreadDocs : CallParseMarkdown(t, segs)
    \/ ParseMarkdownSegments(t)
    \/ \E pos \in 0..len(Segments) : CallInsertAt(t, pos, <<"a">>)
    \/ InsertAtSegments(t)
    \/ CallMinSize(t)
    \/ MinSizeCharMinSize(t)
    \/ MinSizeRLock(t)
    \/ MinSizeRows(t)
    \/ MinSizeRow(t)
    \/ MinSizeRowBounds(t)
    \/ MinSizeRowBoundaryRLock(t)
    \/ MinSizeRowBoundary(t)
    \/ CallRendererRefresh(t)
    \/ RefreshRows(t)
    \/ RefreshRowBoundaryRLock(t)
    \/ RefreshRowBoundary(t)
    \/ RefreshLock(t)
    \/ RefreshSetObjects(t)
    \/ LayoutRLock(t)
    \/ LayoutRowBounds(t)

SpecThreads == InitThreads /\ [][NextThreads]_vars

\* ---- the access to the fields a thread's next step makes
\* the fields t's next step reads
Reads(t) ==
  CASE pc[t] = "Resize_baseSize" -> {"size"}
    [] pc[t] = "updateRowBounds_bounds" -> {"Segments", "Wrapping", "size"}
    [] pc[t] = "insertAt_Segments" -> {"Segments"}
    [] pc[t] = "MinSize_charMinSize" -> {"Segments"}
    [] pc[t] = "MinSize_rows" -> {"rowBounds", "Wrapping"}
    [] pc[t] = "MinSize_row" -> {"rowBounds"}
    [] pc[t] = "MinSize_row_bounds" -> {"rowBounds", "Segments"}
    [] pc[t] = "MinSize_rowBoundary" -> {"rowBounds"}
    [] pc[t] = "Refresh_rows" -> {"rowBounds"}
    [] pc[t] = "Refresh_rowBoundary" -> {"rowBounds"}
    [] pc[t] = "Layout_rowBounds" -> {"rowBounds", "Segments"}
    [] OTHER -> {}

\* the fields t's next step writes
Writes(t) ==
  CASE pc[t] = "Resize_size" -> {"size"}
    [] pc[t] = "updateRowBounds_rowBounds" -> {"rowBounds"}
    [] pc[t] = "ParseMarkdown_Segments" -> {"Segments"}
    [] pc[t] = "insertAt_Segments" -> {"Segments"}
    [] OTHER -> {}

HoldsRead(t) == t \in readers \/ writer = t

HoldsWrite(t) == writer = t

\* ------------------------------------------------- claims: the wrap engine
RowText(b) == Slice(wText, b.begin, b.end)

RowFits(b) == measurer(RowText(b)) <= wMaxWidth

\* a row that is one white-space-free token wider than the wrap width
UnbreakableTooWide(b) ==
  /\ \A i \in 1..Len(RowText(b)) : ~IsSpace(RowText(b)[i])
  /\ measurer(RowText(b)) > wMaxWidth

WordRowsFitOrUnbreakable ==
  \A i \in 1..Len(wBounds) : RowFits(wBounds[i]) \/ UnbreakableTooWide(wBounds[i])

\* C1 as stated: for every wrap width, every row lineBounds produces in Word
\* mode measures at most maxWidth, unless it is one unbreakable token wider
\* than maxWidth.
C1_WordRowsFitAnyWidth ==
  (wPhase = "done" /\ wWrap = TextWrapWord) => WordRowsFitOrUnbreakable

\* C1 amended: for every wrap width maxWidth > 0, every row lineBounds
\* produces in Word mode measures at most maxWidth, unless it is one
\* unbreakable token wider than maxWidth.
C1_WordRowsFit ==
  (wPhase = "done" /\ wWrap = TextWrapWord /\ wMaxWidth > 0)
    => WordRowsFitOrUnbreakable

\* Word mode has wrapped a line wider than a positive maxWidth into several
\* rows, one of them filling the width exactly.
C1_Witness ==
  /\ wPhase = "done" /\ wWrap = TextWrapWord /\ wMaxWidth > 0
  /\ measurer(wText) > wMaxWidth
  /\ Len(wBounds) >= 2
  /\ \E i \in 1..Len(wBounds) : measurer(RowText(wBounds[i])) = wMaxWidth

\* the rows lineBounds emitted for the physical line l
RowsOfLine(l) ==
  SelectSeq(wBounds, LAMBDA b : b.begin >= l.begin /\ b.end <= l.end)

LineConsumed(l) ==
  LET rows == RowsOfLine(l)
  IN /\ rows # <<>>
     /\ rows[1].begin = l.begin
     /\ rows[Len(rows)].end = l.end
     /\ \A k \in 1..(Len(rows) - 1) :
          \/ rows[k + 1].begin = rows[k].end
          \/ /\ wWrap = TextWrapWord
             /\ rows[k + 1].begin = rows[k].end + 1
             /\ IsSpace(At(wText, rows[k].end))

\* C2: in Break and Word mode the rows of every physical line consume the
\* whole line: the first begins at the line's begin, the last ends at the
\* line's end, each next row begins where the previous ended (in Word mode
\* possibly one white-space rune later).
C2_RowsConsumeLine ==
  (wPhase = "done" /\ wWrap \in {TextWrapBreak, TextWrapWord})
    => \A j \in 1..Len(splitLines(0, wText)) : LineConsumed(splitLines(0, wText)[j])

\* C7: every row boundary the row-boundary computation produces, in every
\* wrap mode and for every width, has 0 <= begin <= end <= number of runes of
\* the text.
C7_BoundsInRange ==
  wPhase = "done"
    => \A i \in 1..Len(wBounds) :
         /\ 0 <= wBounds[i].begin
         /\ wBounds[i].begin <= wBounds[i].end
         /\ wBounds[i].end <= Len(wText)

\* a text of several physical lines, one of them empty, wrapped into rows
C7_Witness ==
  /\ wPhase = "done" /\ wWrap # TextWrapOff /\ wMaxWidth > 0
  /\ Len(splitLines(0, wText)) >= 2
  /\ Len(wBounds) > Len(splitLines(0, wText))
  /\ \E i \in 1..Len(wBounds) : wBounds[i].begin = wBounds[i].end

\* ---------------------------------------------------- claims: binarySearch
\* lessMaxWidth is true up to a threshold in [low, maxHigh] and false beyond
ThresholdPredicate ==
  \E T \in sLow..sMaxHigh : \A h \in sLow..sMaxHigh : (h \in sFits) <=> (h <= T)

\* C3: binarySearch returns low when low >= maxHigh; otherwise maxHigh when
\* lessMaxWidth(low, maxHigh) holds; otherwise, for a threshold predicate, the
\* largest high in [low, maxHigh] with lessMaxWidth(low, high).
C3_BinarySearchResult ==
  sPhase = "done"
    => /\ sLow >= sMaxHigh => sResult = sLow
       /\ (sLow < sMaxHigh /\ sMaxHigh \in sFits) => sResult = sMaxHigh
       /\ (sLow < sMaxHigh /\ sMaxHigh \notin sFits /\ ThresholdPredicate)
            => /\ sResult \in sLow..sMaxHigh
               /\ sResult \in sFits
               /\ \A h \in sLow..sMaxHigh : h \in sFits => h <= sResult

\* the search ran both of its loops and stopped strictly inside the range
C3_Witness ==
  /\ sPhase = "done" /\ ThresholdPredicate
  /\ sMaxHigh \notin sFits
  /\ sLow + 2 <= sResult /\ sResult + 2 <= sMaxHigh

\* ---------------------------------------------------- claims: the RichText
\* the runes of the text segments before segment i
startOf(segs, i) == len(SubSeq(segs, 1, i - 1))

HasTextSegment(segs) == \E i \in 1..Len(segs) : isTextSegment(segs[i])

\* C4: insertAt(pos, s) on a list with a text segment, 0 <= pos <= total
\* runes, splices s into the text segment whose cumulative rune range contains
\* pos, at the offset of pos in it, and changes no other segment (so the
\* texts together read old[0:pos] + s + old[pos:]).
C4_InsertSplicesAtPos ==
  (lastCall.op = "insertAt" /\ HasTextSegment(lastCall.before))
    => /\ ~panicked
       /\ Len(Segments) = Len(lastCall.before)
       /\ \E i \in 1..Len(lastCall.before) :
            LET r == lastCall.before[i].Text
                offset == lastCall.pos - startOf(lastCall.before, i)
            IN /\ isTextSegment(lastCall.before[i])
               /\ 0 <= offset /\ offset <= Len(r)
               /\ Segments[i].Text =
                    Slice(r, 0, offset) \o lastCall.runes \o Slice(r, offset, Len(r))
               /\ \A j \in 1..Len(Segments) : j # i => Segments[j] = lastCall.before[j]

\* C5: deleteFromTo(low, high), low <= high and low inside a text segment,
\* removes from that segment the runes from low up to high, clamped to the
\* segment's length, returns exactly the removed runes, and does not fail.
C5_DeleteRemovesClamped ==
  lastCall.op = "deleteFromTo"
    => \A i \in 1..Len(lastCall.before) :
         LET r == lastCall.before[i].Text
             from == lastCall.lowBound - startOf(lastCall.before, i)
             to == Min(lastCall.highBound - startOf(lastCall.before, i), Len(r))
         IN (isTextSegment(lastCall.before[i]) /\ 0 <= from /\ from < Len(r))
              => /\ ~panicked
                 /\ Len(Segments) = Len(lastCall.before)
                 /\ Segments[i].Text = Slice(r, 0, from) \o Slice(r, to, Len(r))
                 /\ deleted = Slice(r, from, to)
                 /\ \A j \in 1..Len(Segments) : j # i => Segments[j] = lastCall.before[j]

\* C6: on a list with a text segment, insertAt(pos, s) at a valid pos and then
\* deleteFromTo(pos, pos + len(s)) both complete, the delete returns s, and
\* every segment's text is what it was before the insert.
C6_InsertThenDeleteRestores ==
  /\ (lastCall.op = "insertAt" /\ HasTextSegment(lastCall.before)) => ~panicked
  /\ (lastCall.op = "deleteFromTo" /\ lastCall.undoes
        /\ HasTextSegment(lastCall.undone.before))
       => /\ ~panicked
          /\ deleted = lastCall.undone.runes
          /\ Segments = lastCall.undone.before

\* the boundary k of rowBounds ends at a newline of its segment's text
EndsAtNewline(k) ==
  LET text == Segments[rowBounds[k].seg].Text
  IN rowBounds[k].end < Len(text) /\ At(text, rowBounds[k].end) = "\n"

\* C8: a stored boundary is inline only if it is the last boundary of its own
\* segment and that segment is inline; a boundary that ends at a newline or is
\* followed by a boundary of the same segment is not inline.
C8_InlineOnlyLastOfInlineSegment ==
  \A k \in 1..Len(rowBounds) :
    /\ rowBounds[k].inline
         => /\ Segments[rowBounds[k].seg].Inline
            /\ (k = Len(rowBounds) \/ rowBounds[k + 1].seg # rowBounds[k].seg)
    /\ EndsAtNewline(k) => ~rowBounds[k].inline

\* ------------------------------------------------------ claims: the threads
AllReturned == \A t \in Threads : pc[t] = "idle"

\* C9: whenever no mutator call is in progress, also after mutators have run
\* concurrently on different threads and all have returned, the cached
\* rowBounds are the boundaries computed from the current Segments, Wrapping
\* and size.
C9_RowBoundsCurrentWhenIdle ==
  (AllReturned /\ ~panicked)
    => rowBounds = updateRowBounds(Segments, Wrapping, size)

\* C10: every read of Segments, Wrapping, size and rowBounds is made with the
\* propertyLock held, every write with it held for writing, so no state has
\* one thread about to write such a field while another is about to read or
\* write it.
C10_FieldAccessUnderLock ==
  /\ \A t \in Threads :
       /\ Reads(t) # {} => HoldsRead(t)
       /\ Writes(t) # {} => HoldsWrite(t)
  /\ \A t1, t2 \in Threads :
       t1 # t2 => Writes(t1) \cap (Reads(t2) \cup Writes(t2)) = {}

\* thread t holds the read lock and is about to fetch the boundary of a row
\* that rowBounds does not have: rowBoundary returns nil and the caller
\* reads bound.seg
MissingBoundary(t) ==
  /\ pc[t] \in {"MinSize_rowBoundary", "Refresh_rowBoundary"}
  /\ local[t].i >= Len(rowBounds)

\* C17: RichText.MinSize and textRenderer.Refresh never dereference a
\* missing row boundary: the boundary they fetch for a row index exists,
\* also when another thread has replaced rowBounds by a shorter list since
\* they read the row count.
C17_FetchedBoundaryExists ==
  \A t \in Threads : ~MissingBoundary(t)

\* ------------------------------------------------ the renderer of a RichText
\* Lengths are in half units, so that spare / 2 is exact: Unit is one unit.
Unit == 2

\* Most runes the segments the renderer is given hold together.
MaxRenderText == 2

\* theme.Size(SizeNameText) and theme.Size(SizeNameHeadingText), in units
TextSizes == {1, 2}

TextAlignLeading == "Leading"
TextAlignCenter == "Center"
TextAlignTrailing == "Trailing"
Aligns == {TextAlignLeading, TextAlignCenter, TextAlignTrailing}

\* a rune that UTF-8 encodes in two bytes
TwoByteRune == "U+00E9"
\* passwordChar
passwordChar == "U+2022"
\* utf8.RuneError, what []rune(s) gives for a byte that starts no valid
\* encoding
RuneError == "U+FFFD"

\* string(r): the bytes of one rune; an ASCII rune is its own byte
UTF8(r) ==
  CASE r = TwoByteRune -> <<"C3", "A9">>
    [] r = passwordChar -> <<"E2", "80", "A2">>
    [] r = RuneError -> <<"EF", "BF", "BD">>
    [] OTHER -> <<r>>

RECURSIVE EncodeRunes(_)
\* string(runes)
EncodeRunes(runes) ==
  IF runes = <<>> THEN <<>> ELSE UTF8(Head(runes)) \o EncodeRunes(Tail(runes))

\* s starts with the bytes p
HasPrefix(s, p) == Len(s) >= Len(p) /\ SubSeq(s, 1, Len(p)) = p

RECURSIVE DecodeRunes(_)
\* []rune(s)
DecodeRunes(s) ==
  IF s = <<>> THEN <<>>
  ELSE IF \E r \in {TwoByteRune, passwordChar, RuneError} : HasPrefix(s, UTF8(r))
  THEN LET r == CHOOSE q \in {TwoByteRune, passwordChar, RuneError} :
                  HasPrefix(s, UTF8(q))
       IN <<r>> \o DecodeRunes(SubSeq(s, Len(UTF8(r)) + 1, Len(s)))
  ELSE IF Head(s) \in {"C3", "A9", "E2", "80", "A2", "EF", "BF", "BD"}
  THEN <<RuneError>> \o DecodeRunes(Tail(s))
  ELSE <<Head(s)>> \o DecodeRunes(Tail(s))

\* strings.Repeat(s, n)
Repeat(s, n) == IF n = 0 THEN <<>> ELSE [k \in 1..(n * Len(s)) |-> s[((k - 1) % Len(s)) + 1]]

\* a TextSegment with its Style (Alignment, Inline, the size of its
\* SizeName) and its concealed flag
StyledSegment(text, inline, textSize, alignment, concealed) ==
  [kind |-> "TextSegment", Text |-> text, Inline |-> inline,
   TextSize |-> textSize, Alignment |-> alignment, concealed |-> concealed]

\* fyne.MeasureText(text, size, style), text being runes: width and height
MeasureText(text, textSize) ==
  [Width |-> Unit * textSize * measurer(text), Height |-> Unit * textSize]

\* canvas.Text.MinSize()
TextMinSize(obj) == MeasureText(DecodeRunes(obj.Text), obj.TextSize)

\* TextSegment.Visual(): canvas.NewText(t.Text, t.color()) with the style
Visual(seg) ==
  [Text |-> EncodeRunes(seg.Text), TextSize |-> seg.TextSize,
   Alignment |-> seg.Alignment,
   x |-> 0, y |-> 0, Width |-> 0, Height |-> 0]

\* RichText.row(row)
row(segs, bounds, i) ==
  IF i < 0 \/ i >= Len(bounds) THEN <<>>
  ELSE LET b == bounds[i + 1]
           text == segs[b.seg].Text
       IN IF b.begin < 0 \/ b.end > Len(text) \/ b.end < b.begin THEN <<>>
          ELSE Slice(text, b.begin, b.end)

\* RichText.charMinSize(concealed): the size of "M" in the first segment
charMinSize(segs) == MeasureText(<<"a">>, segs[1].TextSize)

Max(a, b) == IF a > b THEN a ELSE b

RECURSIVE minSizeLoop(_, _, _, _, _, _)
\* the loop of RichText.MinSize over the rows: the width and the height it
\* has added up after row i
minSizeLoop(segs, bounds, wrap, i, width, height) ==
  IF i >= Len(bounds) THEN [Width |-> width, Height |-> height]
  ELSE LET str == row(segs, bounds, i)
           bound == bounds[i + 1]
           measured == MeasureText(str, segs[bound.seg].TextSize)
           min == IF str = <<>> THEN charMinSize(segs) ELSE measured
           w == IF wrap = TextWrapOff THEN Max(width, min.Width) ELSE width
           h == IF i = Len(bounds) - 1 \/ ~bound.inline
                THEN height + min.Height ELSE height
       IN minSizeLoop(segs, bounds, wrap, i + 1, w, h)

\* RichText.MinSize() before theme.Padding()*4 is added and the inset taken
\* off
MinSize(segs, bounds, wrap) ==
  LET sum == minSizeLoop(segs, bounds, wrap, 0, 0, 0)
  IN [Width |-> sum.Width,
      Height |-> IF sum.Height = 0 THEN charMinSize(segs).Height ELSE sum.Height]

RECURSIVE placeLoopNoGap(_, _, _, _, _)
\* placeLoop without the space between two texts
placeLoopNoGap(texts, i, xPos, yPos, lineHeight) ==
  IF i > Len(texts) THEN [texts |-> texts, xPos |-> xPos]
  ELSE LET sz == TextMinSize(texts[i])
           placed == [texts EXCEPT ![i].Width = sz.Width,
                                   ![i].Height = Max(lineHeight, sz.Height),
                                   ![i].x = xPos, ![i].y = yPos]
       IN placeLoopNoGap(placed, i + 1, xPos + sz.Width, yPos, lineHeight)

RECURSIVE placeLoop(_, _, _, _, _)
\* the first loop of layoutRow: every text at its minimum size, left to
\* right from xPos with the width of a space between two texts
placeLoop(texts, i, xPos, yPos, lineHeight) ==
  IF i > Len(texts) THEN [texts |-> texts, xPos |-> xPos]
  ELSE LET sz == TextMinSize(texts[i])
           placed == [texts EXCEPT ![i].Width = sz.Width,
                                   ![i].Height = Max(lineHeight, sz.Height),
                                   ![i].x = xPos, ![i].y = yPos]
           gap == IF i < Len(texts)
                  THEN MeasureText(<<" ">>, texts[i].TextSize).Width ELSE 0
       IN placeLoop(placed, i + 1, xPos + sz.Width + gap, yPos, lineHeight)

\* text.Move(text.Position().Add(fyne.NewPos(dx, 0))) for texts[1:]
shiftRest(texts, dx) ==
  [k \in 1..Len(texts) |->
     IF k = 1 THEN texts[k] ELSE [texts[k] EXCEPT !.x = texts[k].x + dx]]

\* textRenderer.layoutRow
layoutRow(texts, align, xPos, yPos, lineWidth, lineHeight) ==
  IF Len(texts) = 1
  THEN <<[texts[1] EXCEPT !.Width = lineWidth, !.Height = lineHeight,
                          !.x = xPos, !.y = yPos]>>
  ELSE LET placed == placeLoop(texts, 1, xPos, yPos, lineHeight)
           spare == lineWidth - placed.xPos
           pad == spare \div 2
           n == Len(texts)
           p == placed.texts
       IN CASE align = TextAlignTrailing ->
                 shiftRest([p EXCEPT ![1].Width = p[1].Width + spare,
                                     ![1].Height = lineHeight,
                                     ![1].Alignment = TextAlignTrailing], spare)
            [] align = TextAlignCenter ->
                 LET first == [p EXCEPT ![1].Width = p[1].Width + pad,
                                        ![1].Height = lineHeight,
                                        ![1].Alignment = TextAlignTrailing]
                     last == [first EXCEPT ![n].Width = first[n].Width + pad,
                                           ![n].Height = lineHeight,
                                           ![n].Alignment = TextAlignLeading]
                 IN shiftRest(last, pad)
            [] OTHER ->
                 [p EXCEPT ![n].Width = p[n].Width + spare,
                           ![n].Height = lineHeight,
                           ![n].Alignment = TextAlignLeading]

RECURSIVE layoutLoop(_, _, _, _, _, _, _, _, _, _)
\* the loop of textRenderer.Layout over the objects: i is the object, from
\* the first object of rowTexts; the result is the objects laid out and the
\* yPos after the last row
layoutLoop(segs, bounds, objs, i, from, rowAlign, left, yPos, lineWidth, lineHeight) ==
  IF i > Len(objs) THEN [objects |-> objs, yPos |-> yPos]
  ELSE LET hasBound == i <= Len(bounds)
           align == IF i = from /\ hasBound
                    THEN segs[bounds[i].seg].Alignment ELSE rowAlign
       IN IF i < Len(objs) /\ (~hasBound \/ bounds[i].inline)
          THEN layoutLoop(segs, bounds, objs, i + 1, from, align,
                          left, yPos, lineWidth, lineHeight)
          ELSE LET laid == layoutRow(SubSeq(objs, from, i), align, left, yPos,
                                     lineWidth, lineHeight)
                   objs2 == [k \in 1..Len(objs) |->
                               IF k >= from /\ k <= i
                               THEN laid[k - from + 1] ELSE objs[k]]
               IN layoutLoop(segs, bounds, objs2, i + 1, i + 1, align,
                             left, yPos + lineHeight, lineWidth, lineHeight)

\* textRenderer.Layout(size), the inset being zero: the objects laid out and
\* the yPos after the last row
Layout(segs, bounds, objs, width) ==
  LET left == Unit * Padding * 2
      yPos == Unit * Padding * 2
      lineHeight == charMinSize(segs).Height
      lineWidth == Unit * width - yPos * 2
  IN layoutLoop(segs, bounds, objs, 1, 1, TextAlignLeading, left, yPos,
                lineWidth, lineHeight)

\* the object textRenderer.Refresh builds for one boundary
refreshObject(segs, bound) ==
  LET seg == segs[bound.seg]
      obj == Visual(seg)
      cut == IF bound.begin # 0 \/ bound.end # Len(DecodeRunes(obj.Text))
             THEN [obj EXCEPT !.Text = Slice(obj.Text, bound.begin, bound.end)]
             ELSE obj
  IN IF seg.concealed
     THEN [cut EXCEPT !.Text =
             Repeat(UTF8(passwordChar), Len(DecodeRunes(cut.Text)))]
     ELSE cut

\* the objects textRenderer.Refresh sets, before it calls Layout
refreshObjects(segs, bounds) ==
  [k \in 1..Len(bounds) |-> refreshObject(segs, bounds[k])]

\* the runes a rendered text is made of
RenderRunes == {"a", TwoByteRune, "\n"}

RECURSIVE RenderTextsOfLen(_)
RenderTextsOfLen(n) ==
  IF n = 0 THEN {<<>>}
  ELSE {Append(t, r) : t \in RenderTextsOfLen(n - 1), r \in RenderRunes}

RenderSegments(n, concealed) ==
  {StyledSegment(text, inline, textSize, alignment, concealed) :
     text \in RenderTextsOfLen(n), inline \in BOOLEAN, textSize \in TextSizes,
     alignment \in Aligns}

\* the segment lists a RichText is constructed with; a password entry
\* conceals all its segments
RenderSegmentLists ==
  UNION {{<<s>> : s \in RenderSegments(n, c)} :
           <<n, c>> \in (0..MaxRenderText) \X BOOLEAN}
  \cup UNION {{<<s1, s2>> : s1 \in RenderSegments(q[1], q[3]),
                            s2 \in RenderSegments(q[2], q[3])} :
              q \in {p \in (0..MaxRenderText) \X (0..MaxRenderText) \X BOOLEAN :
                       p[1] + p[2] <= MaxRenderText}}

\* NewRichText(segments...), no renderer yet
InitRender ==
  /\ rSegments \in RenderSegmentLists
  /\ rWrapping \in {TextWrapOff, TextWrapWord}
  /\ rSize = 0
  /\ rRowBounds = <<>>
  /\ rObjects = <<>>
  /\ rMinSize = [Width |-> -1, Height |-> -1]
  /\ rLayout = -1
  /\ NotRenderIdle

\* textRenderer.Refresh(): the objects of the rows, then Layout(size)
RendererRefresh ==
  LET laid == Layout(rSegments, rRowBounds',
                     refreshObjects(rSegments, rRowBounds'), rSize')
  IN /\ rObjects' = laid.objects
     /\ rLayout' = laid.yPos - Unit * Padding * 2

\* t.CreateRenderer(): updateRowBounds, then the renderer's Refresh
CreateRenderer ==
  /\ rLayout < 0
  /\ rRowBounds' = updateRowBounds(rSegments, rWrapping, rSize)
  /\ UNCHANGED rSize
  /\ RendererRefresh
  /\ rMinSize' = [Width |-> -1, Height |-> -1]
  /\ UNCHANGED <<rSegments, rWrapping, notRenderVars>>

\* t.Resize(size) once the renderer exists: the size, updateRowBounds,
\* Refresh with the renderer's Refresh, and Layout(size)
RenderResize(newSize) ==
  /\ rLayout >= 0
  /\ rSize # newSize
  /\ rSize' = newSize
  /\ rRowBounds' = updateRowBounds(rSegments, rWrapping, newSize)
  /\ RendererRefresh
  /\ rMinSize' = [Width |-> -1, Height |-> -1]
  /\ UNCHANGED <<rSegments, rWrapping, notRenderVars>>

\* t.MinSize()
RenderMinSize ==
  /\ rMinSize' = MinSize(rSegments, rRowBounds, rWrapping)
  /\ UNCHANGED <<rSegments, rWrapping, rSize, rRowBounds, rObjects, rLayout,
                 notRenderVars>>

NextRender ==
  \/ CreateRenderer
  \/ \E newSize \in Sizes : RenderResize(newSize)
  \/ RenderMinSize

SpecRender == InitRender /\ [][NextRender]_vars

\* --------------------------------------------------- claims: the renderer
\* MinSize and Layout have both run on the current rows, and the renderer
\* has one object for each row
LaidOutInSync ==
  /\ rMinSize.Height >= 0
  /\ rLayout >= 0
  /\ Len(rObjects) = Len(rRowBounds)

\* C11: with the renderer's objects in sync with the row boundaries, the
\* height MinSize declares (before padding and inset) is the vertical space
\* Layout consumes, also when segments of different text sizes are mixed.
C11_MinSizeHeightIsLayoutHeight ==
  LaidOutInSync => rMinSize.Height = rLayout

\* the text the object of row i should show: the runes of the row, or
\* that many mask characters for a concealed segment
RowString(i) ==
  LET runes == row(rSegments, rRowBounds, i)
  IN IF rSegments[rRowBounds[i + 1].seg].concealed
     THEN Repeat(UTF8(passwordChar), Len(runes))
     ELSE EncodeRunes(runes)

\* C18: the text of the object textRenderer.Refresh builds for a row
\* boundary is the rune range [begin, end) of the owning segment's text (for
\* a concealed segment, that many mask characters), also for text whose
\* runes take more than one byte.
C18_ObjectTextIsRowRunes ==
  (rLayout >= 0 /\ Len(rObjects) = Len(rRowBounds))
    => \A i \in 0..(Len(rRowBounds) - 1) : rObjects[i + 1].Text = RowString(i)

\* ----------------------------------------------- layoutRow applied once
\* Most texts in a row.
MaxRowTexts == 3
\* Widest row, in units.
MaxRowWidth == 6

\* the texts a row is made of before they are laid out
RowObjects ==
  {Visual(StyledSegment(text, TRUE, textSize, TextAlignLeading, FALSE)) :
     text \in {<<>>, <<"a">>, <<"a", "a">>}, textSize \in TextSizes}

RECURSIVE RowsOfLen(_)
RowsOfLen(n) ==
  IF n = 0 THEN {<<>>}
  ELSE {Append(r, o) : r \in RowsOfLen(n - 1), o \in RowObjects}

InitLayoutRow ==
  /\ lrTexts \in UNION {RowsOfLen(n) : n \in 1..MaxRowTexts}
  /\ lrAlign \in Aligns
  /\ lrXPos \in {0, Unit * Padding * 2}
  /\ lrLineWidth \in {Unit * w : w \in 0..MaxRowWidth}
  /\ lrLineHeight \in {Unit * s : s \in TextSizes}
  /\ lrPhase = "input"
  /\ NotRowIdle

\* r.layoutRow(texts, align, xPos, yPos, lineWidth, lineHeight)
ApplyLayoutRow ==
  /\ lrPhase = "input"
  /\ lrTexts' = layoutRow(lrTexts, lrAlign, lrXPos, 0, lrLineWidth, lrLineHeight)
  /\ lrPhase' = "done"
  /\ UNCHANGED <<lrAlign, lrXPos, lrLineWidth, lrLineHeight, notRowVars>>

NextLayoutRow == ApplyLayoutRow

SpecLayoutRow == InitLayoutRow /\ [][NextLayoutRow]_vars

\* ------------------------------------------------------ claims: layoutRow
minWidth(k) == TextMinSize(lrTexts[k]).Width

RECURSIVE SumMinWidths(_)
\* the minimum widths of the first k texts together
SumMinWidths(k) == IF k = 0 THEN 0 ELSE SumMinWidths(k - 1) + minWidth(k)

RECURSIVE SumGaps(_)
\* the space widths after the first k texts together
SumGaps(k) ==
  IF k = 0 THEN 0
  ELSE SumGaps(k - 1) + MeasureText(<<" ">>, lrTexts[k].TextSize).Width

\* where text k is put before the leftover is handed out
BaseX(k) == lrXPos + SumMinWidths(k - 1) + SumGaps(k - 1)

\* the leftover goes where the alignment says
Redistributed(leftover) ==
  LET n == Len(lrTexts)
      half == leftover \div 2
      grow(k) == CASE lrAlign = TextAlignTrailing -> IF k = 1 THEN leftover ELSE 0
                   [] lrAlign = TextAlignCenter ->
                        IF k = 1 \/ k = n THEN half ELSE 0
                   [] OTHER -> IF k = n THEN leftover ELSE 0
      shift(k) == CASE lrAlign = TextAlignTrailing -> IF k = 1 THEN 0 ELSE leftover
                    [] lrAlign = TextAlignCenter -> IF k = 1 THEN 0 ELSE half
                    [] OTHER -> 0
  IN \A k \in 1..n :
       /\ lrTexts[k].Width = minWidth(k) + grow(k)
       /\ lrTexts[k].x = BaseX(k) + shift(k)

RowLaidOut == lrPhase = "done" /\ Len(lrTexts) >= 2

\* C15 as stated: the leftover layoutRow hands out in a row of two or more
\* objects is rowWidth minus the sum of the objects' minimum widths, and it
\* goes where the alignment says.
C15_LeftoverIsWidthMinusWidths ==
  RowLaidOut => Redistributed(lrLineWidth - SumMinWidths(Len(lrTexts)))

\* C15: the leftover layoutRow hands out in a row of two or more objects is
\* rowWidth minus where the row ends, that is minus the row's starting x,
\* the objects' minimum widths and the width of a space between each two
\* objects; it goes where the alignment says: Leading to the last object's
\* width, Trailing to the first object's width with every later object
\* shifted right by it, Center half to the first and half to the last
\* object's width with the objects after the first shifted right by half.
C15_LeftoverIsWidthMinusRowEnd ==
  RowLaidOut =>
    Redistributed(lrLineWidth - (lrXPos + SumMinWidths(Len(lrTexts))
                                   + SumGaps(Len(lrTexts) - 1)))

\* a centred row of three texts starting at the padding with leftover to
\* hand out
C15_Witness ==
  /\ RowLaidOut /\ Len(lrTexts) = 3 /\ lrAlign = TextAlignCenter
  /\ lrXPos > 0
  /\ lrTexts[1].Width # minWidth(1)
  /\ lrTexts[2].x > BaseX(2)

\* ------------------------------------------------------------- WatchTheme
\* Most changes of the registry key.
MaxSignals == 4
\* Most calls of onChanged followed.
MaxInvocations == 5

\* WatchTheme(onChanged) is called; the system has the notification
\* procedure or not, and the key or not
InitWatch ==
  /\ wtPc = "FindProc"
  /\ procFound \in BOOLEAN
  /\ keyExists \in BOOLEAN
  /\ keyDeleted = FALSE
  /\ changed = FALSE
  /\ signals = 0
  /\ invocations = 0
  /\ NotWatchIdle

\* LoadDLL, FindProc; if regNotifyChangeKeyValue == nil { return }
FindProc ==
  /\ wtPc = "FindProc"
  /\ wtPc' = IF procFound THEN "OpenKey" ELSE "returned"
  /\ UNCHANGED <<procFound, keyExists, keyDeleted, changed, signals,
                 invocations, notWatchVars>>

\* registry.OpenKey; if err != nil { return }
OpenKey ==
  /\ wtPc = "OpenKey"
  /\ wtPc' = IF keyExists THEN "Call" ELSE "returned"
  /\ UNCHANGED <<procFound, keyExists, keyDeleted, changed, signals,
                 invocations, notWatchVars>>

\* the system: a value of the key is changed
ThemeChanged ==
  /\ keyExists /\ ~keyDeleted
  /\ signals < MaxSignals
  /\ changed' = TRUE
  /\ signals' = signals + 1
  /\ UNCHANGED <<wtPc, procFound, keyExists, keyDeleted, invocations,
                 notWatchVars>>

\* the system: the key is deleted while WatchTheme holds it open
KeyDeleted ==
  /\ wtPc \in {"Call", "onChanged"}
  /\ ~keyDeleted
  /\ keyDeleted' = TRUE
  /\ UNCHANGED <<wtPc, procFound, keyExists, changed, signals, invocations,
                 notWatchVars>>

\* regNotifyChangeKeyValue.Call(...) returns: the key has been changed
CallSignalled ==
  /\ wtPc = "Call"
  /\ changed
  /\ changed' = FALSE
  /\ wtPc' = "onChanged"
  /\ UNCHANGED <<procFound, keyExists, keyDeleted, signals, invocations,
                 notWatchVars>>

\* regNotifyChangeKeyValue.Call(...) returns an error at once, the key being
\* deleted; the results of Call are dropped
CallFailed ==
  /\ wtPc = "Call"
  /\ keyDeleted
  /\ invocations < MaxInvocations
  /\ wtPc' = "onChanged"
  /\ UNCHANGED <<procFound, keyExists, keyDeleted, changed, signals,
                 invocations, notWatchVars>>

\* onChanged(), and the loop goes round
OnChanged ==
  /\ wtPc = "onChanged"
  /\ invocations < MaxInvocations
  /\ invocations' = invocations + 1
  /\ wtPc' = "Call"
  /\ UNCHANGED <<procFound, keyExists, keyDeleted, changed, signals,
                 notWatchVars>>

NextWatch ==
  \/ FindProc
  \/ OpenKey
  \/ ThemeChanged
  \/ KeyDeleted
  \/ CallSignalled
  \/ CallFailed
  \/ OnChanged

SpecWatch == InitWatch /\ [][NextWatch]_vars

\* ----------------------------------------------------- claims: WatchTheme
\* C12: onChanged is never called without a change of the key having been
\* signalled, and at most once for each; WatchTheme does not return once it
\* is in its loop; it returns without calling onChanged when the procedure
\* or the key is not there.
C12_CallbackOncePerSignal ==
  /\ invocations <= signals
  /\ (procFound /\ keyExists) => wtPc # "returned"
  /\ ~(procFound /\ keyExists) => invocations = 0

\* ------------------------------------------------------ the markdown bridge
\* A node of the document tree: its kind, its children, and for a Text its
\* text, for a Heading or an Emphasis its level.
Node(kind, children) == [kind |-> kind, children |-> children, text |-> <<>>, level |-> 0]
TextNode(text) == [kind |-> "Text", children |-> <<>>, text |-> text, level |-> 0]
LevelNode(kind, level, children) ==
  [kind |-> kind, children |-> children, text |-> <<>>, level |-> level]

\* ast.TypeInline
IsInline(n) == n.kind \in {"Text", "Emphasis", "Link", "CodeSpan", "Image"}

\* a TextSegment with one of the RichTextStyle values
MarkdownSegment(style, text) ==
  [kind |-> "TextSegment", Style |-> style, Text |-> text,
   Inline |-> style \in {"Inline", "Strong", "Emphasis", "CodeInline"}]

\* &TextSegment{Style: RichTextStyleParagraph}
linebreak == MarkdownSegment("Paragraph", <<>>)

\* a line break after every Paragraph, in a blockquote or not
paragraphBreakAlways(blockquote) == <<linebreak>>

\* if !blockquote { children = append(children, linebreak) }
paragraphBreak(blockquote) == IF ~blockquote THEN <<linebreak>> ELSE <<>>

RECURSIVE forceIntoText(_)
\* the texts of the Text nodes under n, joined with " "
forceIntoText(n) ==
  IF n.kind = "Text" THEN n.text
  ELSE IF n.children = <<>> THEN <<>>
  ELSE LET rest == forceIntoText([n EXCEPT !.children = Tail(n.children)])
           first == forceIntoText(Head(n.children))
       IN IF Len(n.children) = 1 THEN first ELSE first \o <<" ">> \o rest

RECURSIVE forceIntoHeadingText(_)
\* the texts of the Text nodes under n, one after the other
forceIntoHeadingText(n) ==
  IF n.kind = "Text" THEN n.text
  ELSE IF n.children = <<>> THEN <<>>
  ELSE forceIntoHeadingText(Head(n.children))
       \o forceIntoHeadingText([n EXCEPT !.children = Tail(n.children)])

\* suffixSpaceIfAppropriate(text, n), nextInline: n has a next sibling that
\* is inline
suffixSpaceIfAppropriate(text, nextInline) ==
  IF nextInline /\ (text = <<>> \/ text[Len(text)] # " ")
  THEN text \o <<" ">> ELSE text

RECURSIVE renderNode(_, _, _)
RECURSIVE renderChildren(_, _, _)

\* renderNode(source, n, blockquote)
renderNode(n, nextInline, blockquote) ==
  CASE n.kind = "Document" -> renderChildren(n, 1, blockquote)
    [] n.kind = "Paragraph" ->
         renderChildren(n, 1, blockquote) \o paragraphBreak(blockquote)
    [] n.kind = "List" ->
         <<[kind |-> "ListSegment", Items |-> renderChildren(n, 1, blockquote)]>>
    [] n.kind = "ListItem" ->
         <<[kind |-> "ParagraphSegment", Texts |-> renderChildren(n, 1, blockquote)]>>
    [] n.kind = "TextBlock" -> renderChildren(n, 1, blockquote)
    [] n.kind = "Heading" ->
         <<MarkdownSegment(CASE n.level = 1 -> "Heading"
                             [] n.level = 2 -> "SubHeading"
                             [] OTHER -> "ParagraphBold",
                           forceIntoHeadingText(n))>>
    [] n.kind = "ThematicBreak" -> <<[kind |-> "SeparatorSegment"]>>
    [] n.kind = "Emphasis" ->
         <<MarkdownSegment(IF n.level = 2 THEN "Strong" ELSE "Emphasis",
                           forceIntoText(n))>>
    [] n.kind = "Text" ->
         IF n.text = <<>> THEN <<MarkdownSegment("Inline", <<" ">>)>>
         ELSE <<MarkdownSegment(IF blockquote THEN "Blockquote" ELSE "Inline",
                                suffixSpaceIfAppropriate(n.text, nextInline))>>
    [] n.kind = "Blockquote" -> renderChildren(n, 1, TRUE)
    [] OTHER -> <<>>

\* renderChildren(source, n, blockquote), from child i on
renderChildren(n, i, blockquote) ==
  IF i > Len(n.children) THEN <<>>
  ELSE renderNode(n.children[i],
                  i < Len(n.children) /\ IsInline(n.children[i + 1]),
                  blockquote)
       \o renderChildren(n, i + 1, blockquote)

\* markdownRenderer.Render
Render(n) == renderNode(n, FALSE, FALSE)

\* Deepest nesting of block nodes in a document.
MaxDepth == 3

\* the paragraphs and other leaf blocks of the documents
LeafBlocks ==
  {Node("Paragraph", cs) :
     cs \in {<<>>, <<TextNode(<<"a">>)>>, <<TextNode(<<>>)>>,
             <<TextNode(<<"a">>), LevelNode("Emphasis", 1, <<TextNode(<<"b">>)>>)>>}}
  \cup {LevelNode("Heading", 3, <<TextNode(<<>>)>>), Node("ThematicBreak", <<>>)}

\* a block around the blocks cs
Wrappers(cs) ==
  {Node("Blockquote", cs), Node("List", <<Node("ListItem", cs)>>)}

RECURSIVE Blocks(_)
\* the blocks nested d deep at most
Blocks(d) ==
  IF d = 0 THEN LeafBlocks
  ELSE IF d = 1
  THEN LeafBlocks
       \cup UNION {Wrappers(<<x>>) : x \in LeafBlocks}
       \cup UNION {Wrappers(<<x, y>>) : <<x, y>> \in LeafBlocks \X LeafBlocks}
  ELSE Blocks(d - 1) \cup UNION {Wrappers(<<x>>) : x \in Blocks(d - 1)}

Documents ==
  {Node("Document", <<x>>) : x \in Blocks(MaxDepth)}
  \cup {Node("Document", <<x, y>>) : <<x, y>> \in Blocks(1) \X Blocks(1)}

InitMarkdown ==
  /\ mdDoc \in Documents
  /\ mdSegs = <<>>
  /\ mdPhase = "parsed"
  /\ NotMarkdownIdle

\* md.Renderer().Render(nil, source, tree)
ApplyRender ==
  /\ mdPhase = "parsed"
  /\ mdSegs' = Render(mdDoc)
  /\ mdPhase' = "rendered"
  /\ UNCHANGED <<mdDoc, notMarkdownVars>>

NextMarkdown == ApplyRender

SpecMarkdown == InitMarkdown /\ [][NextMarkdown]_vars

\* ----------------------------------------------- claims: the markdown bridge
\* what stands for a text in the flattened segment list: its first rune
Token(text) == IF text = <<>> THEN "" ELSE text[1]

RECURSIVE FlatTokens(_)
\* the segment list flattened, lists and list items opened up: "BREAK" for
\* an empty paragraph-style text segment, the token of its text for any
\* other text segment
FlatTokens(segs) ==
  IF segs = <<>> THEN <<>>
  ELSE LET seg == Head(segs)
           first == CASE seg.kind = "ListSegment" -> FlatTokens(seg.Items)
                      [] seg.kind = "ParagraphSegment" -> FlatTokens(seg.Texts)
                      [] seg.kind = "SeparatorSegment" -> <<"SEP">>
                      [] OTHER -> IF seg = linebreak THEN <<"BREAK">>
                                  ELSE <<Token(seg.Text)>>
       IN first \o FlatTokens(Tail(segs))

RECURSIVE ExpectedTokens(_, _)
\* what the claim says of the node n under the kinds of nodes above it: a
\* Paragraph gives what its children give, and one "BREAK" after them unless
\* a Blockquote is above it
ExpectedTokens(n, above) ==
  CASE n.kind = "Text" -> <<IF n.text = <<>> THEN " " ELSE Token(n.text)>>
    [] n.kind = "Heading" -> <<Token(forceIntoHeadingText(n))>>
    [] n.kind = "Emphasis" -> <<Token(forceIntoText(n))>>
    [] n.kind = "ThematicBreak" -> <<"SEP">>
    [] OTHER ->
         LET under == above \cup {n.kind}
             RECURSIVE ofChildren(_)
             ofChildren(i) ==
               IF i > Len(n.children) THEN <<>>
               ELSE ExpectedTokens(n.children[i], under) \o ofChildren(i + 1)
         IN ofChildren(1)
            \o (IF n.kind = "Paragraph" /\ "Blockquote" \notin above
                THEN <<"BREAK">> ELSE <<>>)

\* C13: in the segments rendered from a document tree, every Paragraph that
\* is not inside a Blockquote, however deep, gives its children's segments
\* in document order followed by exactly one empty paragraph-style text
\* segment, and a Paragraph inside a Blockquote gives no such segment.
C13_ParagraphBreakUnlessBlockquote ==
  mdPhase = "rendered" => FlatTokens(mdSegs) = ExpectedTokens(mdDoc, {})

\* a paragraph at the top followed by a paragraph in a blockquote, rendered
C13_Witness ==
  /\ mdPhase = "rendered"
  /\ mdDoc = Node("Document",
                  <<Node("Paragraph", <<TextNode(<<"a">>)>>),
                    Node("Blockquote", <<Node("Paragraph", <<TextNode(<<"a">>)>>)>>)>>)
  /\ mdSegs = <<MarkdownSegment("Inline", <<"a">>), linebreak,
                MarkdownSegment("Blockquote", <<"a">>)>>

\* ------------------------------------------- the theme suite's colour test
\* Colour names the suite knows.
NumColorNames == 3
\* RGBA values a theme draws its colours from.
NumColors == 3

VariantDark == "Dark"
VariantLight == "Light"
knownVariants == <<VariantDark, VariantLight>>
knownColorNames == [k \in 1..NumColorNames |-> k]
Colors == 1..NumColors

\* the themes: th.Color(cn, variant) for every name and variant
Themes == [(1..NumColorNames) \X {VariantDark, VariantLight} -> Colors]

RECURSIVE colorNamesLoop(_, _, _, _)
\* for _, cn := range knownColorNames, from name i on: seen is the map from
\* the keys met to the name last met with it, failed whether an assert.True
\* failed
colorNamesLoop(th, i, seen, failed) ==
  IF i > Len(knownColorNames) THEN failed
  ELSE LET cn == knownColorNames[i]
           key == th[<<cn, VariantDark>>]
           used == \E p \in seen : p[1] = key
           seen2 == {p \in seen : p[1] # key} \cup {<<key, cn>>}
       IN colorNamesLoop(th, i + 1, seen2, failed \/ used)

RECURSIVE variantsLoop(_, _, _)
\* for _, variant := range knownVariants, from variant v on
variantsLoop(th, v, failed) ==
  IF v > Len(knownVariants) THEN failed
  ELSE variantsLoop(th, v + 1, colorNamesLoop(th, 1, {}, failed))

\* TestUniqueColorValues: whether the test fails
TestUniqueColorValues(th) == variantsLoop(th, 1, FALSE)

InitTheme ==
  /\ ttTheme \in Themes
  /\ ttFailed = FALSE
  /\ ttPhase = "constructed"
  /\ NotThemeIdle

\* the suite runs TestUniqueColorValues
RunTestUniqueColorValues ==
  /\ ttPhase = "constructed"
  /\ ttFailed' = TestUniqueColorValues(ttTheme)
  /\ ttPhase' = "run"
  /\ UNCHANGED <<ttTheme, notThemeVars>>

NextTheme == RunTestUniqueColorValues

SpecTheme == InitTheme /\ [][NextTheme]_vars

\* --------------------------------------------------- claims: the theme suite
\* two distinct colour names have the same colour in the variant
Collision(variant) ==
  \E cn1, cn2 \in 1..NumColorNames :
    cn1 # cn2 /\ ttTheme[<<cn1, variant>>] = ttTheme[<<cn2, variant>>]

\* C14: the unique-colour test fails exactly if two distinct colour names
\* have the same colour within some known variant.
C14_FailsIffCollisionInAVariant ==
  ttPhase = "run" =>
    (ttFailed <=> \E v \in 1..Len(knownVariants) : Collision(knownVariants[v]))

\* ----------------------------- the Break and Word loops, one step at a time
\* Longest line the loops are given.
MaxLine == 3
\* Most iterations of a loop followed.
MaxIterations == 12

RECURSIVE LinesOfLen(_)
\* the lines: texts without a newline
LinesOfLen(n) ==
  IF n = 0 THEN {<<>>}
  ELSE {Append(t, r) : t \in LinesOfLen(n - 1), r \in {"a", " "}}

\* the ranges [low, high) of a line of n runes
LoopRanges(n) == {p \in (0..n) \X (0..n) : p[1] <= p[2]}

\* for _, l := range lines, at a line that is not empty, wrap being Break or
\* Word and maxWidth > 0; lpFits[<<low, high>>] is what measurer(text[low:high])
\* <= maxWidth gives, for any measurer
InitLoop ==
  /\ lpText \in UNION {LinesOfLen(n) : n \in 1..MaxLine}
  /\ lpFits \in [LoopRanges(Len(lpText)) -> BOOLEAN]
  /\ lpWrap \in {TextWrapBreak, TextWrapWord}
  /\ lpLow = 0
  /\ lpHigh = Len(lpText)
  /\ lpRows = <<>>
  /\ lpIterations = 0
  /\ lpPc = "loop"
  /\ NotLoopIdle

\* the row appended and what low and high become when the range fits
LoopFits ==
  /\ lpRows' = Append(lpRows, rowBoundary(0, lpLow, lpHigh, FALSE))
  /\ lpHigh' = Len(lpText)
  /\ lpLow' = IF lpWrap = TextWrapWord /\ lpHigh < Len(lpText)
                  /\ IsSpace(At(lpText, lpHigh))
               THEN lpHigh + 1 ELSE lpHigh

\* what high becomes when the range does not fit
LoopShrinks ==
  /\ lpHigh' =
       IF lpWrap = TextWrapBreak
       THEN binarySearch(lpFits, lpLow, lpHigh)
       ELSE LET sub == Slice(lpText, lpLow, lpHigh)
                last == lpLow + Len(sub) - 1
            IN lpLow + findSpaceIndex(sub, binarySearch(lpFits, lpLow, last) - lpLow)
  /\ UNCHANGED <<lpLow, lpRows>>

\* one iteration of "for low < high"; the loop ends when low < high fails
\* after it
LoopStep ==
  /\ lpPc = "loop"
  /\ lpIterations < MaxIterations
  /\ IF lpFits[<<lpLow, lpHigh>>] THEN LoopFits ELSE LoopShrinks
  /\ lpIterations' = lpIterations + 1
  /\ lpPc' = IF lpLow' < lpHigh' THEN "loop" ELSE "done"
  /\ UNCHANGED <<lpText, lpFits, lpWrap, notLoopVars>>

NextLoop == LoopStep

SpecLoop == InitLoop /\ [][NextLoop]_vars /\ WF_vars(NextLoop)

\* ---------------------------------------------- claims: the wrapping loops
\* C16: the Break and Word loops of lineBounds terminate for every line,
\* every maxWidth > 0 and every measurement function: each iteration either
\* appends a row and strictly increases low, or appends none and strictly
\* decreases high, and the loop comes to its end.
C16_LoopsTerminate ==
  /\ [][LoopStep =>
          \/ Len(lpRows') = Len(lpRows) + 1 /\ lpLow' > lpLow
          \/ lpRows' = lpRows /\ lpLow' = lpLow /\ lpHigh' < lpHigh]_vars
  /\ <>(lpPc = "done")

\* a Word loop that has ended after appending two rows and shrinking high
\* in between
C16_Witness ==
  /\ lpPc = "done" /\ lpWrap = TextWrapWord
  /\ Len(lpRows) = 2 /\ lpIterations > 2
====
